---- MODULE Spec2Model ----
(***************************************************************************)
(* Test session / response / result pipeline of the IQ-test backend:       *)
(*   POST /test/start, GET /test/:id/question, POST /test/:id/response,    *)
(*   GET /test/:id/status, GET /results/session/:id,                       *)
(*   POST /test/:id/abandon                                                *)
(* over the relational store (test_sessions, questions, responses,         *)
(* test_results) and the Redis session cache.  Every handler is cut at the *)
(* awaits that touch the store or the cache, so requests of two clients    *)
(* interleave exactly where the Node event loop lets them.                 *)
(* Submits are modelled without the optional behaviorData field.           *)
(***************************************************************************)
EXTENDS Integers, Sequences, FiniteSets, TLC

\* ---------------------------------------------------------------- bounds
MaxSessions == 1            \* sessions that can be started in one run
MaxTicks    == 1            \* clock advances in one run
TickSeconds == 301          \* seconds added by one clock advance
MaxN        == 60           \* questions of a completed test whose score is computed

\* ------------------------------------------------------ program constants
MinTimeLimit   == 300
MaxTimeLimit   == 7200
FullIqTotal    == 60
QuickTotal     == 20
PracticeTotal  == 10
IqFloor        == 40
IqCeiling      == 200

\* ------------------------------------------------------------ value sets
Slots      == {"c1", "c2"}          \* two clients, one request in flight each
SessionIds == 1 .. MaxSessions
GhostId    == 0                     \* a well-formed id no session has
NoUser     == "null"
Users      == {"u1"}
Callers    == Users \cup {NoUser}
QuestionIds == {"q1", "q2"}
NoQuestion == "null"
BadQuestionId == "not-a-uuid"
NoLimit    == 0                     \* timeLimit absent (null)
\* request bodies of POST /test/start: the valid ones, and one per validation rule
StartBodies ==
  ({"full_iq", "practice"} \X {NoLimit, MinTimeLimit})
    \cup {<<"bogus", NoLimit>>, <<"full_iq", MinTimeLimit - 1>>}
\* request bodies of POST /test/:sessionId/response: "10" is q1's key and
\* "circle" is q2's; the last three break one validation rule each
SubmitBodies ==
  {<<"q1", "10", 1500>>, <<"q1", "circle", 1500>>, <<"q2", "circle", 1500>>,
   <<BadQuestionId, "10", 1500>>, <<"q1", "", 1500>>, <<"q1", "10", -1>>}
NoTime     == -1
Infinity   == 1000000               \* stands for the IEEE value 1/0 * 100

Active   == {"STARTED", "IN_PROGRESS"}
Terminal == {"COMPLETED", "ABANDONED", "INVALID"}

VARIABLES
  questions,   \* table questions: id -> row
  sessions,    \* table test_sessions: id -> row (status "NONE" = no row)
  responses,   \* table responses: set of rows
  results,     \* table test_results: set of rows
  cache,       \* Redis key session:<id> -> cached value (status "NONE" = no key)
  now,         \* Date.now(), in seconds
  reqs         \* per client: the request in flight or the last reply

vars == <<questions, sessions, responses, results, cache, now, reqs>>

\* ------------------------------------------------------------------ rows
NoSession ==
  [userId |-> NoUser, status |-> "NONE", currentIndex |-> 0, questionIds |-> <<>>,
   timeLimit |-> NoLimit, startedAt |-> NoTime, endedAt |-> NoTime]

NoResult ==
  [exists |-> FALSE, id |-> 0, sessionId |-> GhostId, totalScore |-> 0, iqScore |-> 0,
   totalTime |-> 0, completedAt |-> NoTime]

NoProgress == [current |-> 0, total |-> 0, percentage |-> 0]

NoGen == [totalQuestions |-> 0, correctAnswers |-> 0, totalTime |-> 0]

NoReply ==
  [code |-> "NONE", completed |-> FALSE, isCorrect |-> FALSE, question |-> NoQuestion,
   progress |-> NoProgress, status |-> "NONE", result |-> NoResult]

Idle ==
  [kind |-> "idle", pc |-> "done", sid |-> GhostId, caller |-> NoUser, qid |-> NoQuestion,
   answer |-> "", responseTime |-> 0, session |-> NoSession, isCorrect |-> FALSE,
   dup |-> FALSE, writes |-> 0, gen |-> NoGen, reply |-> NoReply]

Exists(s) == s \in SessionIds /\ sessions[s].status # "NONE"

\* the row a findUnique on test_sessions returns (NoSession for null)
FindSession(s) == IF s \in SessionIds THEN sessions[s] ELSE NoSession

\* ------------------------------------------------------- pure functions
Min(a, b) == IF a < b THEN a ELSE b
Max(a, b) == IF a > b THEN a ELSE b

\* Math.round(x) for the rational x = num / den, den > 0:  floor(x + 1/2)
RoundDiv(num, den) == (2 * num + den) \div (2 * den)

\* Math.round((current / total) * 100); total = 0 divides by zero
Percentage(current, total) ==
  IF total = 0 THEN Infinity ELSE RoundDiv(current * 100, total)

Progress(current, total) ==
  [current |-> current, total |-> total, percentage |-> Percentage(current, total)]

\* Math.floor((Date.now() - startedAt) / 1000)
Elapsed(session, t) == t - session.startedAt

Expired(session, t) == session.timeLimit # NoLimit /\ Elapsed(session, t) > session.timeLimit

\* session.userId && req.user?.id !== session.userId
AccessDenied(session, caller) == session.userId # NoUser /\ caller # session.userId

\* questionCounts[testType]
ConfigTotal(testType) ==
  CASE testType = "full_iq"  -> FullIqTotal
    [] testType = "quick_assessment" -> QuickTotal
    [] testType = "practice" -> PracticeTotal
    [] OTHER -> FullIqTotal

ConfigCategories(testType) ==
  CASE testType = "full_iq"  ->
         {"logical_sequences", "spatial", "verbal", "working_memory", "processing_speed"}
    [] testType = "quick_assessment" -> {"logical_sequences", "spatial", "verbal"}
    [] testType = "practice" -> {"logical_sequences"}
    [] OTHER ->
         {"logical_sequences", "spatial", "verbal", "working_memory", "processing_speed"}

\* orderBy: { difficulty: 'asc' }
RECURSIVE SortByDifficulty(_)
SortByDifficulty(S) ==
  IF S = {} THEN <<>>
  ELSE LET q == CHOOSE x \in S : \A y \in S : questions[x].difficulty <= questions[y].difficulty
       IN  <<q>> \o SortByDifficulty(S \ {q})

Take(seq, n) == SubSeq(seq, 1, Min(n, Len(seq)))

generateQuestionSequence(testType) ==
  LET found == {q \in QuestionIds :
                  /\ questions[q].exists
                  /\ questions[q].isActive
                  /\ questions[q].category \in ConfigCategories(testType)}
      rows  == Take(SortByDifficulty(found), ConfigTotal(testType) * 2)
  IN  Take(rows, ConfigTotal(testType))

\* getQuestionForSession(sessionId, index); index is 0-based
getQuestionForSession(s, index) ==
  LET session == FindSession(s) IN
  IF session.status = "NONE" \/ index >= Len(session.questionIds) THEN NoQuestion
  ELSE LET questionId == session.questionIds[index + 1] IN
       IF questions[questionId].exists THEN questionId ELSE NoQuestion

\* the first question whatever the index
ExpectedQuestionIdFirst(session) ==
  IF Len(session.questionIds) > 0 THEN session.questionIds[1] ELSE NoQuestion

\* the last question whatever the index
ExpectedQuestionIdLast(session) ==
  IF Len(session.questionIds) > 0 THEN session.questionIds[Len(session.questionIds)]
  ELSE NoQuestion

\* session.questionIds[session.currentIndex] (undefined past the end)
ExpectedQuestionId(session) ==
  IF session.currentIndex < Len(session.questionIds)
  THEN session.questionIds[session.currentIndex + 1]
  ELSE NoQuestion

NextIndexSkipping(session) == session.currentIndex + 2

NextIndex(session) == session.currentIndex + 1

IsLastQuestion(session) == NextIndex(session) >= Len(session.questionIds)

\* the rows of responses for one (sessionId, questionId)
RowsFor(s, q) == {x \in responses : x.sessionId = s /\ x.questionId = q}

\* the unique index responses(sessionId, questionId) without its constraint
ResponseExistsNoIndex(s, q) == FALSE

\* the unique index responses(sessionId, questionId): a create for a pair
\* that has a row fails with P2002
ResponseExists(s, q) == RowsFor(s, q) # {}

ResponsesOf(s) == {r \in responses : r.sessionId = s}

\* the rows of test_results for one sessionId
ResultsFor(s) == {x \in results : x.sessionId = s}

\* include: { result: true } (NoResult for null)
ResultOf(s) == IF ResultsFor(s) = {} THEN NoResult ELSE CHOOSE x \in ResultsFor(s) : TRUE

\* the unique index test_results(sessionId) without its constraint
ResultExistsNoIndex(s) == FALSE

\* the unique index test_results(sessionId): a create for a session that has
\* a row fails with P2002
ResultExists(s) == ResultsFor(s) # {}

\* the correct answers counted by comparing again with the question's key
CorrectCountRederived(rows) ==
  Cardinality({x \in rows : x.answer = questions[x.questionId].correctAnswer})

\* session.responses.filter(r => r.isCorrect).length
CorrectCount(rows) == Cardinality({x \in rows : x.isCorrect})

\* a score that falls as the number of correct answers rises
IqScoreInverted(correct, total) == 85 + RoundDiv(30 * (total - correct), total)

\* the score cut off (Math.floor) where the source rounds
IqScoreTruncated(correct, total) == 85 + ((30 * correct) \div total)

\* Math.round(100 + (correct / total - 0.5) * 30), total > 0
IqScore(correct, total) == 85 + RoundDiv(30 * correct, total)

Clamp(iq) == Max(IqFloor, Min(IqCeiling, iq))

\* ------------------------------------------------------------------ Init
Init ==
  /\ \E active \in BOOLEAN :
       questions =
         [q \in QuestionIds |->
            IF q = "q1"
            THEN [exists |-> TRUE, isActive |-> active, category |-> "logical_sequences",
                  difficulty |-> -10, correctAnswer |-> "10"]
            ELSE [exists |-> TRUE, isActive |-> active, category |-> "spatial",
                  difficulty |-> -5, correctAnswer |-> "circle"]]
  /\ sessions  = [s \in SessionIds |-> NoSession]
  /\ responses = {}
  /\ results   = {}
  /\ cache     = [s \in SessionIds |-> NoSession]
  /\ now   = 0
  /\ reqs  = [c \in Slots |-> Idle]

\* a client may send a request when its previous one has been answered.  The
\* two clients are alike: whenever only one of them is waiting for a reply it
\* is called c1, so c2 sends only while c1 is waiting.
Free(c) == reqs[c].pc = "done" /\ (c = "c2" => reqs["c1"].pc # "done")

Named(f) ==
  IF f["c1"].pc = "done" /\ f["c2"].pc # "done"
  THEN [d \in Slots |-> IF d = "c1" THEN f["c2"] ELSE f["c1"]]
  ELSE f

\* reqs is what the clients see.  A reply stays with its client until that
\* client sends again, or until the other client's request moves on; it stays
\* beyond that only next to a request of the same kind on the same session,
\* a pair of overlapping requests whose outcomes can then be compared.
Kept(d, rec) ==
  IF reqs[d].pc # "done" THEN reqs[d]
  ELSE IF reqs[d].kind = rec.kind /\ reqs[d].sid = rec.sid
          /\ rec.kind \in {"submit", "result"} THEN reqs[d]
  ELSE Idle

\* client c sends a request, whose record becomes rec
Send(c, rec) ==
  reqs' = Named([d \in Slots |-> IF d = c THEN rec
                                 ELSE IF reqs[d].pc = "done" THEN Idle ELSE reqs[d]])

\* the request of client c goes on to its next await, or is answered
Step(c, rec) == reqs' = Named([d \in Slots |-> IF d = c THEN rec ELSE Kept(d, rec)])

Reply(code) == [NoReply EXCEPT !.code = code]

\* every engine error as the default branch answers it
handlePrismaErrorDefault(code) == "InternalError"

\* handlePrismaError: the error class a known Prisma request error becomes
handlePrismaError(code) ==
  CASE code = "P2002" -> "ConflictError"
    [] code = "P2025" -> "NotFoundError"
    [] code \in {"P2003", "P2014"} -> "ValidationError"
    [] OTHER -> "InternalError"

\* the record of an answered request
Done(kind, s, reply) == [Idle EXCEPT !.kind = kind, !.sid = s, !.reply = reply]

\* ------------------------------------------------------------ the clock
Tick ==
  /\ now < MaxTicks * TickSeconds
  /\ now' = now + TickSeconds
  /\ UNCHANGED <<questions, sessions, responses, results, cache, reqs>>

\* ------------------------------------------------------ POST /test/start
StartValid(testType, timeLimit) ==
  /\ testType \in {"full_iq", "quick_assessment", "practice"}
  /\ timeLimit = NoLimit \/ (timeLimit >= MinTimeLimit /\ timeLimit <= MaxTimeLimit)

StartRejected(c, caller, testType, timeLimit) ==
  /\ Free(c)
  /\ ~StartValid(testType, timeLimit)
  /\ Send(c, Done("start", GhostId, Reply("ValidationError")))
  /\ UNCHANGED <<questions, sessions, responses, results, cache, now>>

\* the whole handler: no other request can name the session before the reply
StartTest(c, caller, testType, timeLimit) ==
  /\ Free(c)
  /\ StartValid(testType, timeLimit)
  /\ \E s \in SessionIds :
       /\ ~Exists(s)
       /\ \A t \in SessionIds : t < s => Exists(t)
       /\ LET questionIds == generateQuestionSequence(testType)
              row == [userId |-> caller, status |-> "STARTED", currentIndex |-> 0,
                      questionIds |-> questionIds, timeLimit |-> timeLimit,
                      startedAt |-> now, endedAt |-> NoTime]
          IN  /\ sessions' = [sessions EXCEPT ![s] = row]
              \* the select of the create leaves userId and endedAt out
              /\ cache' = [cache EXCEPT ![s] = [row EXCEPT !.userId = NoUser]]
              /\ Send(c, Done("start", s,
                      [Reply("OK") EXCEPT
                         !.question = IF Len(questionIds) > 0 /\ questions[questionIds[1]].exists
                                      THEN questionIds[1] ELSE NoQuestion,
                         !.progress = Progress(1, Len(questionIds)),
                         !.status   = "STARTED"]))
  /\ UNCHANGED <<questions, responses, results, now>>

\* ----------------------------------------------- GET /test/:sessionId/status
Status(c, s, caller) ==
  /\ Free(c)
  /\ LET session == FindSession(s) IN
       Send(c, Done("status", s,
            IF session.status = "NONE" THEN Reply("NotFoundError")
            ELSE IF AccessDenied(session, caller) THEN Reply("ValidationError")
            ELSE [Reply("OK") EXCEPT
                    !.status   = session.status,
                    !.progress = Progress(session.currentIndex + 1,
                                          Len(session.questionIds))]))
  /\ UNCHANGED <<questions, sessions, responses, results, cache, now>>

\* ------------------------------------------- GET /test/:sessionId/question
\* what follows the session lookup: the checks and, for a session that has
\* not expired, getQuestionForSession(sessionId, session.currentIndex) and the
\* reply; an expired session goes on to the update
QuestionChecked(s, caller, session) ==
  LET question == getQuestionForSession(s, session.currentIndex)
      asked == [Idle EXCEPT !.kind = "question", !.sid = s, !.caller = caller]
  IN
  IF AccessDenied(session, caller) \/ session.status \notin Active
  THEN [asked EXCEPT !.reply = Reply("ValidationError")]
  ELSE IF Expired(session, now)
  THEN [asked EXCEPT !.pc = "q_timeout"]
  ELSE [asked EXCEPT !.reply =
            IF question = NoQuestion THEN Reply("NotFoundError")
            ELSE [Reply("OK") EXCEPT
                    !.question = question,
                    !.progress = Progress(session.currentIndex + 1,
                                          Len(session.questionIds))]]

\* CacheService.get: a hit is used as the session; after a miss,
\* prisma.testSession.findUnique (the miss and the read are one step: what the
\* request goes on with is the row as it is at the read)
QuestionBegin(c, s, caller) ==
  LET session == FindSession(s) IN
  /\ Free(c)
  /\ IF s \in SessionIds /\ cache[s].status # "NONE"
     THEN Send(c, QuestionChecked(s, caller, cache[s]))
     ELSE IF session.status = "NONE"
     THEN Send(c, [Done("question", s, Reply("NotFoundError")) EXCEPT !.caller = caller])
     ELSE Send(c, [Idle EXCEPT !.kind = "question", !.sid = s, !.caller = caller,
                               !.session = [session EXCEPT !.endedAt = NoTime],
                               !.pc = "q_set"])
  /\ UNCHANGED <<questions, sessions, responses, results, cache, now>>

\* CacheService.set of the row just read, then the checks
QuestionCacheSet(c) ==
  LET r == reqs[c] IN
  /\ r.pc = "q_set"
  /\ cache' = [cache EXCEPT ![r.sid] = r.session]
  /\ Step(c, QuestionChecked(r.sid, r.caller, r.session))
  /\ UNCHANGED <<questions, sessions, responses, results, now>>

\* the update that marks an expired session COMPLETED
QuestionTimeout(c) ==
  LET r == reqs[c] IN
  /\ r.pc = "q_timeout"
  /\ sessions' = [sessions EXCEPT ![r.sid].status = "COMPLETED", ![r.sid].endedAt = now]
  /\ Step(c, [Done("question", r.sid, Reply("ValidationError")) EXCEPT !.caller = r.caller])
  /\ UNCHANGED <<questions, responses, results, cache, now>>

\* ------------------------------------------ POST /test/:sessionId/response
\* submitResponseValidation (sessionId is always a well-formed id here)
SubmitValid(questionId, answer, responseTime) ==
  /\ questionId # BadQuestionId
  /\ answer # ""
  /\ responseTime >= 0

\* the record of an answered submit or result fetch: what was asked, the row
\* the handler read, and the reply.  dup (a Response for the pair, or a
\* TestResult for the session, existed when the row was read) and writes (the
\* rows this request wrote) are kept for the claims.
Answered(r, reply) ==
  [Idle EXCEPT !.kind = r.kind, !.sid = r.sid, !.caller = r.caller, !.qid = r.qid,
               !.session = r.session, !.dup = r.dup, !.writes = r.writes,
               !.gen = r.gen, !.reply = reply]

\* validation, prisma.testSession.findUnique, the checks on the row read,
\* prisma.question.findUnique and the comparison with correctAnswer
SubmitBegin(c, s, caller, questionId, answer, responseTime) ==
  LET session == [FindSession(s) EXCEPT !.endedAt = NoTime]
      sent == [Idle EXCEPT !.kind = "submit", !.sid = s, !.caller = caller,
                           !.qid = questionId]
      read == [sent EXCEPT !.session = session, !.dup = (RowsFor(s, questionId) # {})]
  IN
  /\ Free(c)
  /\ IF ~SubmitValid(questionId, answer, responseTime)
     THEN Send(c, Answered(sent, Reply("ValidationError")))
     ELSE IF session.status = "NONE"
     THEN Send(c, Answered(read, Reply("NotFoundError")))
     ELSE IF AccessDenied(session, caller)
     THEN Send(c, Answered(read, Reply("ValidationError")))
     ELSE IF session.status \notin Active
     THEN Send(c, Answered(read, Reply("ValidationError")))
     ELSE IF questionId # ExpectedQuestionId(session)
     THEN Send(c, Answered(read, Reply("ValidationError")))
     ELSE IF ~questions[questionId].exists
     THEN Send(c, Answered(read, Reply("NotFoundError")))
     ELSE Send(c, [read EXCEPT !.answer = answer, !.responseTime = responseTime,
                               !.isCorrect = (answer = questions[questionId].correctAnswer),
                               !.pc = "s_create"])
  /\ UNCHANGED <<questions, sessions, responses, results, cache, now>>

\* prisma.response.create under the unique index (sessionId, questionId):
\* P2002 becomes ConflictError in handlePrismaError
SubmitCreate(c) ==
  LET r == reqs[c] IN
  /\ r.pc = "s_create"
  /\ IF ResponseExists(r.sid, r.qid)
     THEN /\ Step(c, Answered(r, Reply(handlePrismaError("P2002"))))
          /\ UNCHANGED responses
     ELSE /\ responses' = responses \cup
                {[id |-> Cardinality(responses) + 1,
                  sessionId |-> r.sid, questionId |-> r.qid, answer |-> r.answer,
                  isCorrect |-> r.isCorrect, responseTime |-> r.responseTime]}
          /\ Step(c, [r EXCEPT !.writes = @ + 1, !.pc = "s_update"])
  /\ UNCHANGED <<questions, sessions, results, cache, now>>

\* prisma.testSession.update with the index and status computed from the row read
SubmitUpdate(c) ==
  LET r == reqs[c] IN
  /\ r.pc = "s_update"
  /\ sessions' = [sessions EXCEPT
                    ![r.sid].currentIndex = NextIndex(r.session),
                    ![r.sid].status = IF IsLastQuestion(r.session) THEN "COMPLETED"
                                      ELSE "IN_PROGRESS",
                    ![r.sid].endedAt = IF IsLastQuestion(r.session) THEN now ELSE @]
  /\ Step(c, [r EXCEPT !.writes = @ + 1, !.pc = "s_cache"])
  /\ UNCHANGED <<questions, responses, results, cache, now>>

\* CacheService.del, then the reply: of a completed test, or with
\* getQuestionForSession(sessionId, nextIndex)
SubmitCacheDel(c) ==
  LET r == reqs[c] IN
  /\ r.pc = "s_cache"
  /\ cache' = [cache EXCEPT ![r.sid] = NoSession]
  /\ IF IsLastQuestion(r.session)
     THEN Step(c, Answered(r, [Reply("OK") EXCEPT !.isCorrect = r.isCorrect,
                                                  !.completed = TRUE]))
     ELSE Step(c, Answered(r, [Reply("OK") EXCEPT
                         !.isCorrect = r.isCorrect,
                         !.completed = FALSE,
                         !.question  = getQuestionForSession(r.sid, NextIndex(r.session)),
                         !.progress  = Progress(NextIndex(r.session) + 1,
                                                Len(r.session.questionIds))]))
  /\ UNCHANGED <<questions, sessions, responses, results, now>>

\* ------------------------------------------- GET /results/session/:sessionId
\* findUnique with result and responses, the checks, and the reply when no
\* result has to be generated
NeedsResultNever(session, result) == FALSE

NeedsResultAlways(session, result) == session.status = "COMPLETED"

\* !session.result && session.status === 'COMPLETED'
NeedsResult(session, result) == ~result.exists /\ session.status = "COMPLETED"

ResultBegin(c, s, caller) ==
  LET session == [FindSession(s) EXCEPT !.endedAt = NoTime]
      read == [Idle EXCEPT !.kind = "result", !.sid = s, !.caller = caller,
                           !.session = session, !.dup = (ResultsFor(s) # {})]
  IN
  /\ Free(c)
  /\ IF session.status = "NONE"
     THEN Send(c, Answered(read, Reply("NotFoundError")))
     ELSE IF AccessDenied(session, caller)
     THEN Send(c, Answered(read, Reply("ValidationError")))
     ELSE IF NeedsResult(session, ResultOf(s))
     THEN Send(c, [read EXCEPT !.pc = "r_read"])
     ELSE Send(c, Answered(read,
               [Reply("OK") EXCEPT !.status = session.status, !.result = ResultOf(s)]))
  /\ UNCHANGED <<questions, sessions, responses, results, cache, now>>

RECURSIVE SumTimes(_)
SumTimes(S) ==
  IF S = {} THEN 0
  ELSE LET r == CHOOSE x \in S : TRUE IN r.responseTime + SumTimes(S \ {r})

\* generateTestResult: the read of the session with its responses
ResultRead(c) ==
  LET r == reqs[c] rows == ResponsesOf(r.sid) IN
  /\ r.pc = "r_read"
  /\ Step(c, [r EXCEPT !.gen = [totalQuestions |-> Cardinality(rows),
                                correctAnswers |-> CorrectCount(rows),
                                totalTime      |-> SumTimes(rows)],
                       !.pc = "r_create"])
  /\ UNCHANGED <<questions, sessions, responses, results, cache, now>>

\* generateTestResult: prisma.testResult.create under the unique index (sessionId).
\* With no responses the scores are NaN, which the INTEGER column iqScore
\* cannot take: the create fails, as a validation or as an engine error.
ResultCreate(c) ==
  LET r == reqs[c] g == r.gen IN
  /\ r.pc = "r_create"
  /\ IF g.totalQuestions = 0
     THEN /\ \E code \in {"ValidationError", "InternalError"} :
               Step(c, Answered(r, Reply(code)))
          /\ UNCHANGED results
     ELSE IF ResultExists(r.sid)
     THEN /\ Step(c, Answered(r, Reply(handlePrismaError("P2002"))))
          /\ UNCHANGED results
     ELSE LET row == [exists |-> TRUE, id |-> Cardinality(results) + 1,
                      sessionId |-> r.sid,
                      totalScore |-> g.correctAnswers,
                      iqScore |-> Clamp(IqScore(g.correctAnswers, g.totalQuestions)),
                      totalTime |-> g.totalTime \div 1000,
                      completedAt |-> now]
          IN  /\ results' = results \cup {row}
              /\ Step(c, Answered([r EXCEPT !.writes = @ + 1],
                               [Reply("OK") EXCEPT !.status = "COMPLETED",
                                                   !.result = row]))
  /\ UNCHANGED <<questions, sessions, responses, cache, now>>

\* ------------------------------------------ POST /test/:sessionId/abandon
\* the request the frontend's abandonTest sends: the test router has no such
\* route, and the request is answered 404 by the server
Abandon(c, s) ==
  /\ Free(c)
  /\ Send(c, Done("abandon", s, Reply("NotFoundError")))
  /\ UNCHANGED <<questions, sessions, responses, results, cache, now>>

\* the session ids a request can name: those handed out by start, and an unknown one
Targets == {GhostId} \cup {s \in SessionIds : Exists(s)}

\* who sends it: anybody, where the handler looks at the caller
CallersOf(s) == IF Exists(s) /\ sessions[s].userId # NoUser THEN Callers ELSE {NoUser}

Next ==
  \/ Tick
  \/ \E c \in Slots, b \in StartBodies : StartRejected(c, NoUser, b[1], b[2])
  \/ \E c \in Slots, u \in Callers, b \in StartBodies : StartTest(c, u, b[1], b[2])
  \/ \E c \in Slots, s \in Targets : \E u \in CallersOf(s) : Status(c, s, u)
  \/ \E c \in Slots, s \in Targets : \E u \in CallersOf(s) : QuestionBegin(c, s, u)
  \/ \E c \in Slots : QuestionCacheSet(c)
  \/ \E c \in Slots : QuestionTimeout(c)
  \/ \E c \in Slots, s \in Targets, b \in SubmitBodies : \E u \in CallersOf(s) :
       SubmitBegin(c, s, u, b[1], b[2], b[3])
  \/ \E c \in Slots : SubmitCreate(c)
  \/ \E c \in Slots : SubmitUpdate(c)
  \/ \E c \in Slots : SubmitCacheDel(c)
  \/ \E c \in Slots, s \in Targets : \E u \in CallersOf(s) : ResultBegin(c, s, u)
  \/ \E c \in Slots : ResultRead(c)
  \/ \E c \in Slots : ResultCreate(c)
  \/ \E c \in Slots, s \in Targets : Abandon(c, s)

Spec == Init /\ [][Next]_vars

\* ------------------------------------------------ failing store and cache
\* prisma.testSession.update rejects (the engine or the connection fails):
\* the handler throws after the Response has been written
SubmitUpdateFails(c) ==
  LET r == reqs[c] IN
  /\ r.pc = "s_update"
  /\ Step(c, Answered(r, Reply(handlePrismaError("P1001"))))
  /\ UNCHANGED <<questions, sessions, responses, results, cache, now>>

\* CacheService.del rethrows the error of the Redis client: the handler
\* throws after the Response and the session update have been written
SubmitCacheDelFails(c) ==
  LET r == reqs[c] IN
  /\ r.pc = "s_cache"
  /\ Step(c, Answered(r, Reply("InternalError")))
  /\ UNCHANGED <<questions, sessions, responses, results, cache, now>>

NextFault ==
  \/ Next
  \/ \E c \in Slots : SubmitUpdateFails(c)
  \/ \E c \in Slots : SubmitCacheDelFails(c)

\* the handlers with a store and a cache that can fail under a submit
SpecFault == Init /\ [][NextFault]_vars

\* ------------------------------------------- PUT /admin/questions/:id
\* the keys an administrator sends as correctAnswer: the seeded ones, one
\* that differs from a seeded key in case only, and the empty one
AdminAnswers == {"10", "circle", "Circle", ""}

\* validation (correctAnswer notEmpty), question.findUnique, question.update
\* with the body.  The request is the administrator's own: it is not one of
\* the test takers' requests in reqs.
AdminUpdateQuestion(id, correctAnswer) ==
  /\ IF correctAnswer = "" \/ ~questions[id].exists
     THEN UNCHANGED questions
     ELSE questions' = [questions EXCEPT ![id].correctAnswer = correctAnswer]
  /\ UNCHANGED <<sessions, responses, results, cache, now, reqs>>

\* one test taker: the second client never sends
OneClient == reqs'["c2"] = Idle

NextAdmin ==
  \/ Next /\ OneClient
  \/ \E id \in QuestionIds, correctAnswer \in AdminAnswers :
       AdminUpdateQuestion(id, correctAnswer)

\* one test taker's requests, and an administrator editing the questions
SpecAdmin == Init /\ [][NextAdmin]_vars

\* ---------------------- DELETE /admin/questions/:id, POST /admin/questions/bulk
\* responses: { some: {} }
HasResponses(id) == \E x \in responses : x.questionId = id

\* the row of a question after a delete request for it: deactivated when it
\* has Responses, removed when it has none
AfterDelete(id) ==
  IF ~questions[id].exists THEN questions[id]
  ELSE IF HasResponses(id) THEN [questions[id] EXCEPT !.isActive = FALSE]
  ELSE [questions[id] EXCEPT !.exists = FALSE]

\* question.findUnique with its responses, then update or delete
AdminDeleteQuestion(id) ==
  /\ questions' = [questions EXCEPT ![id] = AfterDelete(id)]
  /\ UNCHANGED <<sessions, responses, results, cache, now, reqs>>

\* action 'delete' of the bulk route: deleteMany of the questions without
\* Responses, updateMany of the others
AdminBulkDelete(questionIds) ==
  /\ questions' = [id \in QuestionIds |->
                     IF id \in questionIds THEN AfterDelete(id) ELSE questions[id]]
  /\ UNCHANGED <<sessions, responses, results, cache, now, reqs>>

NextDelete ==
  \/ Next /\ OneClient
  \/ \E id \in QuestionIds : AdminDeleteQuestion(id)
  \/ \E questionIds \in SUBSET QuestionIds : AdminBulkDelete(questionIds)

\* one test taker's requests, and an administrator deleting questions
SpecDelete == Init /\ [][NextDelete]_vars

\* ------------------------------------------------ results of completed tests
\* a test of n questions that has been answered to the end, correctly for
\* the first c of them, and has no result yet
InitScore ==
  \E n \in 1 .. MaxN : \E c \in 0 .. n :
    LET ids == [i \in 1 .. n |-> ToString(i)] IN
    /\ questions = [i \in {ids[k] : k \in 1 .. n} |->
                      [exists |-> TRUE, isActive |-> TRUE, category |-> "logical_sequences",
                       difficulty |-> 0, correctAnswer |-> "10"]]
    /\ sessions = [s \in SessionIds |->
                     IF s = 1
                     THEN [NoSession EXCEPT !.status = "COMPLETED", !.currentIndex = n,
                                            !.questionIds = ids, !.startedAt = 0,
                                            !.endedAt = 0]
                     ELSE NoSession]
    /\ responses = {[id |-> i, sessionId |-> 1, questionId |-> ids[i],
                     answer |-> IF i <= c THEN "10" ELSE "11",
                     isCorrect |-> (i <= c), responseTime |-> 1500] : i \in 1 .. n}
    /\ results = {}
    /\ cache = [s \in SessionIds |-> NoSession]
    /\ now = 0
    /\ reqs = [d \in Slots |-> Idle]

NextScore ==
  \/ \E c \in Slots, s \in Targets : \E u \in CallersOf(s) : ResultBegin(c, s, u)
  \/ \E c \in Slots : ResultRead(c)
  \/ \E c \in Slots : ResultCreate(c)

\* GET /results/session/:sessionId on completed tests of every length and score
SpecScore == InitScore /\ [][NextScore]_vars

\* ------------------------------------------------- one client taking a test
\* the question the last reply handed to the client: currentQuestion of
\* start, nextQuestion of a submit
HandedQuestion(c) ==
  IF reqs[c].pc = "done" /\ reqs[c].kind \in {"start", "submit"}
       /\ reqs[c].reply.code = "OK"
  THEN reqs[c].reply.question
  ELSE NoQuestion

\* the client starts a test when it has none under way: at first, after the
\* result of the last one, or after a start that handed it no question
ClientStart(c, caller, testType, timeLimit) ==
  /\ \/ reqs[c].kind \in {"idle", "result"}
     \/ reqs[c].kind = "start" /\ HandedQuestion(c) = NoQuestion
  /\ StartTest(c, caller, testType, timeLimit)

\* the client answers the question it was handed, on the session it started
ClientSubmit(c) ==
  /\ HandedQuestion(c) # NoQuestion
  /\ \E b \in SubmitBodies :
       /\ b[1] = HandedQuestion(c)
       /\ SubmitValid(b[1], b[2], b[3])
       /\ SubmitBegin(c, reqs[c].sid, sessions[reqs[c].sid].userId, b[1], b[2], b[3])

\* the client fetches the result once a submit was answered completed: true
ClientResult(c) ==
  /\ reqs[c].kind = "submit" /\ reqs[c].pc = "done"
  /\ reqs[c].reply.code = "OK" /\ reqs[c].reply.completed
  /\ ResultBegin(c, reqs[c].sid, sessions[reqs[c].sid].userId)

NextClient ==
  \/ Tick
  \/ \E u \in Callers, b \in StartBodies : ClientStart("c1", u, b[1], b[2])
  \/ ClientSubmit("c1")
  \/ SubmitCreate("c1")
  \/ SubmitUpdate("c1")
  \/ SubmitCacheDel("c1")
  \/ ClientResult("c1")
  \/ ResultRead("c1")
  \/ ResultCreate("c1")

\* every request the client can send is sent, and every request is served:
\* each await of a handler resolves
SpecClient ==
  /\ Init
  /\ [][NextClient]_vars
  /\ WF_vars(ClientSubmit("c1"))
  /\ WF_vars(SubmitCreate("c1"))
  /\ WF_vars(SubmitUpdate("c1"))
  /\ WF_vars(SubmitCacheDel("c1"))
  /\ WF_vars(ClientResult("c1"))
  /\ WF_vars(ResultRead("c1"))
  /\ WF_vars(ResultCreate("c1"))


\* ================================================================ claims
IsDone(r, kind) == r.kind = kind /\ r.pc = "done"

\* the question at the current index of a session row
CurrentQuestion(session) ==
  IF session.currentIndex < Len(session.questionIds)
  THEN session.questionIds[session.currentIndex + 1]
  ELSE NoQuestion

\* the request had a valid body, found the session and came from a caller the
\* session admits
Admitted(r) == r.session.status # "NONE" /\ ~AccessDenied(r.session, r.caller)

\* the request read the session non-terminal with its question current
Passed(r) ==
  /\ Admitted(r)
  /\ r.session.status \in Active
  /\ r.qid = CurrentQuestion(r.session)

\* two answered submits of the two clients for the same (sessionId, questionId);
\* records of two clients stand side by side only when the requests overlapped
Overlapping(c, d) ==
  /\ c # d
  /\ IsDone(reqs[c], "submit") /\ IsDone(reqs[d], "submit")
  /\ reqs[c].sid = reqs[d].sid /\ reqs[c].qid = reqs[d].qid
  /\ Admitted(reqs[c]) /\ Admitted(reqs[d])

C2_IndexInRange ==
  \A s \in SessionIds :
    Exists(s) => /\ 0 <= sessions[s].currentIndex
                 /\ sessions[s].currentIndex <= Len(sessions[s].questionIds)

C2_Witness ==
  \E s \in SessionIds :
    /\ Exists(s)
    /\ Len(sessions[s].questionIds) = 2
    /\ sessions[s].currentIndex = 2

\* C3: a submit whose questionId is not the question at the current index of
\* the session it read is answered ValidationError and writes nothing (no
\* Response, no session update); and every Response that is created is for the
\* question at the current index of its session.
C3_OutOfOrderRejected ==
  /\ [](\A c \in Slots :
          (IsDone(reqs[c], "submit") /\ reqs[c].session.status # "NONE"
             /\ reqs[c].qid # CurrentQuestion(reqs[c].session))
          => reqs[c].reply.code = "ValidationError" /\ reqs[c].writes = 0)
  /\ [][\A x \in responses' \ responses :
          x.questionId = CurrentQuestion(sessions[x.sessionId])]_vars

C3_Witness ==
  \E c \in Slots :
    /\ IsDone(reqs[c], "submit") /\ Admitted(reqs[c])
    /\ reqs[c].session.status = "IN_PROGRESS"
    /\ reqs[c].qid = "q1" /\ CurrentQuestion(reqs[c].session) = "q2"
    /\ reqs[c].reply.code = "ValidationError"
    /\ sessions[reqs[c].sid] = [reqs[c].session EXCEPT !.endedAt = sessions[reqs[c].sid].endedAt]

CompletedNormally(session) ==
  /\ session.status = "COMPLETED"
  /\ session.currentIndex = Len(session.questionIds)

\* C5 as stated: a session never has more Responses than questions, and has as
\* many exactly when it is Completed by the acceptance of its last answer.
C5_ResponseCount ==
  \A s \in SessionIds :
    Exists(s) =>
      /\ Cardinality(ResponsesOf(s)) <= Len(sessions[s].questionIds)
      /\ (Cardinality(ResponsesOf(s)) = Len(sessions[s].questionIds))
           <=> CompletedNormally(sessions[s])

\* C6 as stated: a TestResult is created for a session only in a state where
\* the session's currentIndex equals the number of its questions.
C6_ResultOnlyWhenAllAnswered ==
  [][\A s \in SessionIds :
       (ResultsFor(s)' # {} /\ ResultsFor(s) = {})
       => sessions[s].currentIndex = Len(sessions[s].questionIds)]_vars

\* the status edges of the session state machine
StatusEdge(old, new) ==
  \/ new = old
  \/ old = "NONE" /\ new = "STARTED"
  \/ old = "STARTED" /\ new = "IN_PROGRESS"
  \/ old \in Active /\ new \in {"COMPLETED", "ABANDONED"}

\* C7 as stated: the status of a session changes only from Started to
\* InProgress and from a non-terminal status to Completed or Abandoned; a
\* terminal status never changes.
C7_StatusEdges ==
  [][\A s \in SessionIds : StatusEdge(sessions[s].status, sessions'[s].status)]_vars

\* C8: an accepted submit has written one Response row and one session
\* update; the update raises currentIndex by exactly one; and currentIndex
\* changes in no other step and never decreases.
C8_AcceptedSubmitAdvancesByOne ==
  /\ [](\A c \in Slots :
          (IsDone(reqs[c], "submit") /\ reqs[c].reply.code = "OK")
          => /\ reqs[c].writes = 2
             /\ Cardinality(RowsFor(reqs[c].sid, reqs[c].qid)) = 1
             /\ sessions[reqs[c].sid].currentIndex >= reqs[c].session.currentIndex + 1)
  /\ [][\A c \in Slots :
          SubmitUpdate(c)
          => sessions'[reqs[c].sid].currentIndex = sessions[reqs[c].sid].currentIndex + 1]_vars
  /\ [][\A s \in SessionIds :
          sessions'[s].currentIndex # sessions[s].currentIndex
          => /\ sessions'[s].currentIndex > sessions[s].currentIndex
             /\ \E c \in Slots : SubmitUpdate(c) /\ reqs[c].sid = s]_vars

C8_Witness ==
  \E c \in Slots :
    /\ IsDone(reqs[c], "submit") /\ reqs[c].reply.code = "OK"
    /\ reqs[c].writes = 2
    /\ reqs[c].session.currentIndex = 1
    /\ sessions[reqs[c].sid].currentIndex = 2

\* C9 as stated: the update of an accepted submit that makes currentIndex the
\* number of questions leaves the session Completed with an end timestamp,
\* and that of every other accepted submit leaves it InProgress with none;
\* the reply says completed with no next question in the first case, and not
\* completed with the question at the new index and its progress in the other.
C9_LastAndOtherSubmits ==
  /\ [][\A c \in Slots :
          SubmitUpdate(c)
          => LET after == sessions'[reqs[c].sid] IN
             IF after.currentIndex = Len(after.questionIds)
             THEN after.status = "COMPLETED" /\ after.endedAt # NoTime
             ELSE after.status = "IN_PROGRESS" /\ after.endedAt = NoTime]_vars
  /\ [](\A c \in Slots :
          (IsDone(reqs[c], "submit") /\ reqs[c].reply.code = "OK")
          => LET r == reqs[c]
                 new == r.session.currentIndex + 1
                 total == Len(r.session.questionIds)
             IN  IF new = total
                 THEN r.reply.completed /\ r.reply.question = NoQuestion
                 ELSE /\ ~r.reply.completed
                      /\ r.reply.question = r.session.questionIds[new + 1]
                      /\ r.reply.progress = Progress(new + 1, total))

\* C10: once a submit has answered completed = true, the session is Completed
\* with all its questions answered and stays so, and its TestResult exists or
\* is created by the next result fetch: every result fetch of an admitted
\* caller that read the session in that state is answered with the TestResult
\* existing, with no submit in between.
C10_ResultGuaranteed ==
  /\ \A c \in Slots :
       (IsDone(reqs[c], "submit") /\ reqs[c].reply.completed)
       => /\ CompletedNormally(sessions[reqs[c].sid])
          /\ ResponsesOf(reqs[c].sid) # {}
  /\ \A c \in Slots :
       (IsDone(reqs[c], "result") /\ Admitted(reqs[c])
          /\ CompletedNormally(reqs[c].session) /\ Len(reqs[c].session.questionIds) > 0)
       => /\ ResultExists(reqs[c].sid)
          /\ reqs[c].reply.code \in {"OK", "ConflictError"}
          /\ reqs[c].reply.code = "OK" => reqs[c].reply.result = ResultOf(reqs[c].sid)

C10_Witness ==
  \E c \in Slots :
    /\ IsDone(reqs[c], "result") /\ Admitted(reqs[c])
    /\ CompletedNormally(reqs[c].session) /\ Len(reqs[c].session.questionIds) = 2
    /\ reqs[c].reply.code = "OK"
    /\ reqs[c].reply.result.exists
    /\ reqs[c].reply.result = ResultOf(reqs[c].sid)

\* C11: a result fetch of an admitted caller that reads the session with its
\* TestResult is answered with that stored row, and computes and writes
\* nothing; and every result a fetch is answered with, the one that created
\* it included, is the stored row of the session.
C11_ResultIdempotent ==
  /\ \A c \in Slots :
       (IsDone(reqs[c], "result") /\ Admitted(reqs[c]) /\ reqs[c].dup)
       => /\ reqs[c].reply.code = "OK"
          /\ reqs[c].reply.result = ResultOf(reqs[c].sid)
          /\ reqs[c].gen = NoGen
          /\ reqs[c].writes = 0
  /\ \A c \in Slots :
       (IsDone(reqs[c], "result") /\ reqs[c].reply.code = "OK" /\ reqs[c].reply.result.exists)
       => reqs[c].reply.result = ResultOf(reqs[c].sid)

C11_Witness ==
  \E c \in Slots :
    /\ IsDone(reqs[c], "result") /\ Admitted(reqs[c]) /\ reqs[c].dup
    /\ reqs[c].session.status = "COMPLETED"
    /\ reqs[c].reply.code = "OK"
    /\ reqs[c].reply.result.exists
    /\ reqs[c].reply.result.totalScore = 1

\* C12: a session never has two TestResults, and a TestResult, once created,
\* is never changed or removed.
C12_OneImmutableResult ==
  /\ [](\A s \in SessionIds : Cardinality(ResultsFor(s)) <= 1)
  /\ [][\A x \in results : x \in results']_vars

C12_Witness ==
  \E s \in SessionIds :
    /\ ResultsFor(s) # {}
    /\ now > ResultOf(s).completedAt
    /\ \E c \in Slots : IsDone(reqs[c], "result") /\ reqs[c].reply.code = "ConflictError"

\* the fetch called generateTestResult: an admitted caller, a Completed
\* session, no TestResult when the session was read
Generated(r) ==
  /\ IsDone(r, "result") /\ Admitted(r)
  /\ r.session.status = "COMPLETED" /\ ~r.dup

\* C13 as stated: a result generation that finds a number of Responses (one
\* at least) other than the number of questions of the session fails with
\* ValidationError and creates no TestResult.
C13_PartialResultRejected ==
  \A c \in Slots :
    (Generated(reqs[c]) /\ reqs[c].gen.totalQuestions >= 1
       /\ reqs[c].gen.totalQuestions # Len(reqs[c].session.questionIds))
    => reqs[c].reply.code = "ValidationError" /\ reqs[c].writes = 0

\* C14 as stated: a question request for a session that is terminal is
\* answered ValidationError and changes nothing; the timeout update is made
\* on a non-terminal session only, and changes nothing but the status, to
\* Completed, and the end timestamp.
C14_QuestionOnTerminalOrExpired ==
  /\ [][\A c \in Slots, s \in SessionIds, u \in Callers :
          (QuestionBegin(c, s, u) /\ sessions[s].status \in Terminal
             /\ ~AccessDenied(sessions[s], u))
          => \E d \in Slots : /\ IsDone(reqs'[d], "question") /\ reqs'[d].sid = s
                              /\ reqs'[d].reply.code = "ValidationError"]_vars
  /\ [][\A c \in Slots :
          QuestionTimeout(c)
          => LET s == reqs[c].sid IN
             /\ sessions[s].status \in Active
             /\ sessions'[s] = [sessions[s] EXCEPT !.status = "COMPLETED", !.endedAt = now]
             /\ sessions'[s].endedAt # NoTime]_vars

\* C15 as stated: a question request for a session of user u by a caller who
\* is not u is refused and answered with no question.
C15_QuestionOnlyForOwner ==
  \A c \in Slots :
    (IsDone(reqs[c], "question") /\ Exists(reqs[c].sid)
       /\ AccessDenied(sessions[reqs[c].sid], reqs[c].caller))
    => reqs[c].reply.code # "OK" /\ reqs[c].reply.question = NoQuestion

Quiescent == \A c \in Slots : reqs[c].pc = "done"

\* C18 as stated: when every request has been answered, a cache entry of a
\* session holds the status and the currentIndex of its row.
C18_CacheInvalidated ==
  \A s \in SessionIds :
    (Quiescent /\ cache[s].status # "NONE")
    => /\ cache[s].status = sessions[s].status
       /\ cache[s].currentIndex = sessions[s].currentIndex

\* C16 as stated: abandon on a non-terminal session is answered without error
\* and leaves it Abandoned with an end timestamp; on a terminal session it is
\* answered without error and changes nothing.
C16_Abandon ==
  [][\A c \in Slots, s \in SessionIds :
       (Abandon(c, s) /\ Exists(s))
       => /\ \E d \in Slots : /\ IsDone(reqs'[d], "abandon") /\ reqs'[d].sid = s
                              /\ reqs'[d].reply.code = "OK"
          /\ IF sessions[s].status \in Active
             THEN /\ sessions'[s].status = "ABANDONED"
                  /\ sessions'[s].endedAt # NoTime
                  /\ sessions'[s].currentIndex = sessions[s].currentIndex
             ELSE sessions'[s] = sessions[s]
          /\ responses' = responses]_vars

\* C17 as stated: a submit that is answered with an error has written
\* nothing; and when no request is in flight, no non-terminal session has a
\* Response for the question at its current index.
C17_FailedSubmitWritesNothing ==
  /\ \A c \in Slots :
       (IsDone(reqs[c], "submit") /\ reqs[c].reply.code # "OK") => reqs[c].writes = 0
  /\ \A s \in SessionIds :
       (Quiescent /\ sessions[s].status \in Active)
       => RowsFor(s, CurrentQuestion(sessions[s])) = {}

\* C19: the isCorrect a submit carries is the exact string equality of its
\* answer with the question's correctAnswer when the question is looked up;
\* the Response is written with that value; no stored Response ever changes
\* or disappears, whatever an administrator does to the question; and a
\* result is generated from the stored isCorrect values of the session's
\* Responses, with which its totalScore is persisted.
C19_IsCorrectFixedAtSubmit ==
  [][/\ \A x \in responses : x \in responses'
     /\ \A c \in Slots :
          (reqs[c].pc = "done" /\ reqs'[c].pc = "s_create")
          => reqs'[c].isCorrect
               = (reqs'[c].answer = questions[reqs'[c].qid].correctAnswer)
     /\ \A x \in responses' \ responses :
          \E c \in Slots :
            /\ reqs[c].pc = "s_create"
            /\ x.sessionId = reqs[c].sid /\ x.questionId = reqs[c].qid
            /\ x.answer = reqs[c].answer /\ x.isCorrect = reqs[c].isCorrect
     /\ \A c \in Slots :
          (reqs[c].pc = "r_read" /\ reqs'[c].pc = "r_create")
          => reqs'[c].gen.correctAnswers
               = Cardinality({x \in ResponsesOf(reqs[c].sid) : x.isCorrect})
     /\ \A x \in results' \ results :
          \E c \in Slots :
            /\ reqs[c].pc = "r_create" /\ x.sessionId = reqs[c].sid
            /\ x.totalScore = reqs[c].gen.correctAnswers
    ]_vars

\* C19's case: a result exists for a session with a Response whose stored
\* isCorrect differs from the comparison with the question's present key
C19_Witness ==
  \E s \in SessionIds :
    /\ ResultsFor(s) # {}
    /\ \E x \in ResponsesOf(s) :
         x.isCorrect # (x.answer = questions[x.questionId].correctAnswer)
    /\ ResultOf(s).totalScore = Cardinality({x \in ResponsesOf(s) : x.isCorrect})
    /\ ResultOf(s).totalScore
         # Cardinality({x \in ResponsesOf(s) :
                          x.answer = questions[x.questionId].correctAnswer})

\* C20: the iqScore persisted for a test of n >= 1 Responses of which c are
\* correct lies within [40, 200], is no less than the score of the same test
\* with fewer correct Responses and no more than that with more of them.
C20_IqScoreMonotoneAndClamped ==
  \A x \in results :
    LET n == Cardinality(ResponsesOf(x.sessionId))
        c == Cardinality({y \in ResponsesOf(x.sessionId) : y.isCorrect})
    IN  /\ n >= 1
        /\ x.iqScore >= IqFloor /\ x.iqScore <= IqCeiling
        /\ \A k \in 0 .. n :
             /\ k <= c => Clamp(IqScore(k, n)) <= x.iqScore
             /\ k >= c => Clamp(IqScore(k, n)) >= x.iqScore

\* C20's case: a persisted score of a test answered partly correctly, above
\* the score of no correct answer and below that of all
C20_Witness ==
  \E x \in results :
    LET n == Cardinality(ResponsesOf(x.sessionId))
        c == Cardinality({y \in ResponsesOf(x.sessionId) : y.isCorrect})
    IN  /\ n >= 3 /\ c > 0 /\ c < n
        /\ x.iqScore > Clamp(IqScore(0, n))
        /\ x.iqScore < Clamp(IqScore(n, n))

\* the Responses of a result's session, and the correct ones among them
AnsweredOf(x) == Cardinality(ResponsesOf(x.sessionId))
CorrectOf(x) == Cardinality({y \in ResponsesOf(x.sessionId) : y.isCorrect})

\* k is round(100 + (c/n - 0.5) * 30): the integer with k <= y + 1/2 < k + 1
\* for y = (85n + 30c) / n
IsRounded(k, c, n) ==
  /\ 2 * n * k <= 2 * (85 * n + 30 * c) + n
  /\ 2 * (85 * n + 30 * c) + n < 2 * n * (k + 1)

\* C21: the result persisted for a completed session with n Responses of
\* which c are correct has totalScore c and iqScore round(100 + (c/n - 0.5)
\* * 30) clamped to [40, 200]; for n = 10 that is 115 for c = 10, 100 for
\* c = 5 and 85 for c = 0.
C21_PersistedScores ==
  \A x \in results :
    LET n == AnsweredOf(x) c == CorrectOf(x) IN
    /\ sessions[x.sessionId].status = "COMPLETED"
    /\ x.totalScore = c
    /\ \E k \in 0 .. 2 * IqCeiling :
         /\ IsRounded(k, c, n)
         /\ x.iqScore = (IF k < IqFloor THEN IqFloor ELSE IF k > IqCeiling THEN IqCeiling ELSE k)
    /\ (n = 10 /\ c = 10) => x.iqScore = 115
    /\ (n = 10 /\ c = 5) => x.iqScore = 100
    /\ (n = 10 /\ c = 0) => x.iqScore = 85

\* C21's case: the persisted result of a test of 10 questions, 5 of them
\* answered correctly
C21_Witness ==
  \E x \in results :
    /\ AnsweredOf(x) = 10 /\ CorrectOf(x) = 5
    /\ x.totalScore = 5 /\ x.iqScore = 100

\* the place of a Response among the Responses of its session, in the order
\* of their creation
RankOf(x) == Cardinality({y \in ResponsesOf(x.sessionId) : y.id <= x.id})

\* C22: no step changes the questionIds of a session that exists, and the
\* k-th Response created for a session is for the k-th entry of its
\* questionIds.
C22_QuestionIdsFixed ==
  /\ [](\A x \in responses :
          /\ RankOf(x) <= Len(sessions[x.sessionId].questionIds)
          /\ x.questionId = sessions[x.sessionId].questionIds[RankOf(x)])
  /\ [][\A s \in SessionIds :
          Exists(s) => sessions'[s].questionIds = sessions[s].questionIds]_vars

\* C22's case: a session of two questions with both answered, after a submit
\* for each
C22_Witness ==
  \E s \in SessionIds, c \in Slots :
    /\ Len(sessions[s].questionIds) = 2
    /\ Cardinality(ResponsesOf(s)) = 2
    /\ IsDone(reqs[c], "submit") /\ reqs[c].sid = s /\ reqs[c].reply.code = "OK"
    /\ reqs[c].qid = sessions[s].questionIds[2]

\* the client's test on session s is over: the session is COMPLETED at the
\* end of its list with one Response per question, and the result fetch was
\* answered with the TestResult of the session
TestDone(s) ==
  /\ sessions[s].status = "COMPLETED"
  /\ sessions[s].currentIndex = Len(sessions[s].questionIds)
  /\ Cardinality(ResponsesOf(s)) = Len(sessions[s].questionIds)
  /\ IsDone(reqs["c1"], "result") /\ reqs["c1"].sid = s
  /\ reqs["c1"].reply.code = "OK"
  /\ reqs["c1"].reply.result.exists
  /\ reqs["c1"].reply.result \in ResultsFor(s)

\* C23: a client that answers each question it is handed, on a session of
\* n >= 1 questions with no time limit, sees the session COMPLETED when, and
\* only when, n of its submits have been accepted (one Response each), and
\* its result fetch is then answered with the session's TestResult: every
\* such session that has no TestResult yet comes to the state where the
\* fetch has been answered with it, and a session that has a TestResult is
\* COMPLETED with one Response per question.
C23_TestCompletes ==
  /\ [](\A s \in SessionIds :
          Exists(s) =>
            /\ sessions[s].currentIndex = Cardinality(ResponsesOf(s))
                 \/ sessions[s].currentIndex + 1 = Cardinality(ResponsesOf(s))
            /\ (sessions[s].status = "COMPLETED" /\ Len(sessions[s].questionIds) >= 1)
               <=> (sessions[s].currentIndex = Len(sessions[s].questionIds)
                      /\ Len(sessions[s].questionIds) >= 1))
  /\ [](\A s \in SessionIds :
          ResultsFor(s) # {} =>
            /\ sessions[s].status = "COMPLETED"
            /\ Cardinality(ResponsesOf(s)) = Len(sessions[s].questionIds))
  /\ \A s \in SessionIds :
       (/\ Exists(s) /\ Len(sessions[s].questionIds) >= 1
        /\ sessions[s].timeLimit = NoLimit /\ ResultsFor(s) = {})
       ~> TestDone(s)

\* C23's case: the test of two questions with no time limit is over
C23_Witness ==
  \E s \in SessionIds :
    /\ TestDone(s)
    /\ Len(sessions[s].questionIds) = 2
    /\ sessions[s].timeLimit = NoLimit

\* C24 as stated: no step creates a Response for a session that is COMPLETED
\* or changes its currentIndex, status or endedAt.
C24_CompletedIsFinal ==
  [][\A s \in SessionIds :
       sessions[s].status = "COMPLETED"
       => /\ sessions'[s].currentIndex = sessions[s].currentIndex
          /\ sessions'[s].status = sessions[s].status
          /\ sessions'[s].endedAt = sessions[s].endedAt
          /\ {x \in responses' : x.sessionId = s} = ResponsesOf(s)]_vars

\* C25 as stated: two overlapping result fetches that both read the session
\* COMPLETED with Responses and without a TestResult are both answered OK,
\* with the same TestResult.
C25_OverlappingFetchesAgree ==
  \A c \in Slots, d \in Slots :
    (c # d /\ Generated(reqs[c]) /\ Generated(reqs[d]) /\ reqs[c].sid = reqs[d].sid
       /\ reqs[c].gen.totalQuestions >= 1 /\ reqs[d].gen.totalQuestions >= 1)
    => /\ reqs[c].reply.code = "OK" /\ reqs[d].reply.code = "OK"
       /\ reqs[c].reply.result = reqs[d].reply.result

\* C26 as stated: a question fetch sent when every earlier request has been
\* answered, on a session whose index submits have advanced, is not answered
\* with a question that has a Response: a reply with a question carries the
\* question at the session's current index and the progress of that index.
C26_FetchAfterSubmitIsCurrent ==
  [][\A s \in SessionIds :
       (/\ Quiescent
        /\ sessions[s].currentIndex >= 1
        /\ \E u \in CallersOf(s) : QuestionBegin("c1", s, u)
        /\ reqs'["c1"].pc = "done" /\ reqs'["c1"].reply.code = "OK")
       => /\ RowsFor(s, reqs'["c1"].reply.question) = {}
          /\ reqs'["c1"].reply.question = CurrentQuestion(sessions[s])
          /\ reqs'["c1"].reply.progress.current = sessions[s].currentIndex + 1]_vars

\* the submits that have passed the checks and go on to write their Response
Writing(f) == {d \in Slots : f[d].kind = "submit" /\ f[d].pc = "s_create"}

\* C27 as stated: a submit that arrives when the time limit of its session
\* is exceeded is rejected at once: it does not go on to write a Response.
C27_SubmitAfterLimitRejected ==
  [][\A s \in SessionIds :
       (/\ Exists(s) /\ Expired(sessions[s], now)
        /\ \E c \in Slots, b \in SubmitBodies : \E u \in CallersOf(s) :
             SubmitBegin(c, s, u, b[1], b[2], b[3]))
       => Cardinality(Writing(reqs')) <= Cardinality(Writing(reqs))]_vars

\* C28 as stated: whenever generateTestResult has read a session with its
\* Responses, there is at least one Response, so that totalQuestions, the
\* divisor of correctAnswers / totalQuestions, is not zero.
C28_NoZeroDivisor ==
  \A c \in Slots :
    (reqs[c].kind = "result" /\ reqs[c].pc = "r_create")
    => reqs[c].gen.totalQuestions >= 1

\* C29 as stated: every question a non-terminal session still has to present
\* exists, and no submit on an existing session is answered NotFoundError.
C29_PendingQuestionsExist ==
  /\ \A s \in SessionIds :
       sessions[s].status \in Active
       => \A i \in (sessions[s].currentIndex + 1) .. Len(sessions[s].questionIds) :
            questions[sessions[s].questionIds[i]].exists
  /\ \A c \in Slots :
       (IsDone(reqs[c], "submit") /\ reqs[c].reply.code = "NotFoundError")
       => reqs[c].session.status = "NONE"

\* C30 as stated: the progress object of every successful reply of start,
\* question fetch, submit or status has 1 <= current <= total and
\* percentage <= 100.
C30_ProgressInRange ==
  \A c \in Slots :
    (/\ reqs[c].pc = "done"
     /\ reqs[c].kind \in {"start", "question", "submit", "status"}
     /\ reqs[c].reply.code = "OK"
     /\ reqs[c].reply.progress # NoProgress)
    => /\ 1 <= reqs[c].reply.progress.current
       /\ reqs[c].reply.progress.current <= reqs[c].reply.progress.total
       /\ reqs[c].reply.progress.percentage <= 100
====
